---------------------------- MODULE Spec2Model ----------------------------
(***************************************************************************)
(* A model of plinko-game-final.py: the ball physics (Ball.update,         *)
(* Ball.handle_peg_collision), the particle lifecycle (Particle.update,    *)
(* Peg.update), the scoring field (handle_ball_box_score), the simulation  *)
(* step (update_play) and the state machine of the screens around them.    *)
(*                                                                         *)
(* Numbers.  The program computes in binary floating point.  The model     *)
(* computes in fixed point: a length or a velocity is an integer number of *)
(* 1/Scale pixels, a unit normal is an integer number of 1/NScale, and     *)
(* every product or quotient the program rounds to the nearest float is    *)
(* rounded here to the nearest integer (RoundDiv).  Sums and differences   *)
(* are exact.  Intermediate values are kept below 2^31.                    *)
(*                                                                         *)
(* Left out: colours (ball, peg, particle) and the position and velocity   *)
(* of a particle, all of them random and never read by a computation the   *)
(* model contains; drawing; the Exit button and the QUIT event, which end  *)
(* the process.                                                            *)
(***************************************************************************)
EXTENDS Integers, Sequences, FiniteSets

VARIABLES
    state,            \* PlinkoGame.state
    debug_mode,       \* PlinkoGame.settings.debug_mode
    score,            \* PlinkoGame.score
    balls_allowed,    \* PlinkoGame.balls_allowed
    balls_dropped,    \* PlinkoGame.balls_dropped
    best_score,       \* PlinkoGame.best_score
    pegs,             \* PlinkoGame.pegs, each with its particles
    balls,            \* PlinkoGame.balls
    game_over_reason, \* PlinkoGame.game_over_reason
    lastOp,           \* history: what the last handler did, when it reset the
                      \*          game or refused a drop, and what it found
    scored,           \* history: the balls handed to handle_ball_box_score
                      \*          since the last reset, in order
    expired           \* history: the ages (in simulation steps) of the
                      \*          particles the last update_play removed

vars == <<state, debug_mode, score, balls_allowed, balls_dropped, best_score,
          pegs, balls, game_over_reason, lastOp, scored, expired>>

-----------------------------------------------------------------------------
(* Fixed point *)

\* 1/Scale pixel is the unit of every position and velocity.
Scale == 10 * 10

\* 1/NScale is the unit of a component of a unit normal.
NScale == Scale * Scale

\* math.sqrt is taken of Scale^2 * SqrtK^2 times the squared length, so that the
\* root keeps one more decimal digit than a position does.
SqrtK == 5 + 5

\* The unit of the factor MAX_BALL_SPEED / speed.
FScale == Scale * Scale

Px(n) == n * Scale

Abs(a) == IF a < 0 THEN -a ELSE a

\* a / b rounded to the nearest integer (b > 0), halves upwards.
RoundDiv(a, b) == (2 * a + b) \div (2 * b)

RECURSIVE SqrtSearch(_, _, _)
SqrtSearch(n, lo, hi) ==
    IF lo >= hi THEN lo
    ELSE LET mid == (lo + hi + 1) \div 2
         IN  IF mid * mid <= n THEN SqrtSearch(n, mid, hi)
                               ELSE SqrtSearch(n, lo, mid - 1)

\* math.sqrt: the integer nearest to the square root of n, 0 <= n < 2^31.
Sqrt(n) ==
    LET r == SqrtSearch(n, 0, 46340)
    IN  IF n - r * r > r THEN r + 1 ELSE r

-----------------------------------------------------------------------------
(* Global settings *)

SCREEN_WIDTH == 800
SCREEN_HEIGHT == 600
BALL_RADIUS == 12
GRAVITY == (4 * Scale) \div 10               \* 0.4
MAX_BALL_SPEED == 25
WALL_BOUNCE_FACTOR == (8 * Scale) \div 10    \* 0.8, in 1/Scale
COLLISION_DAMPING == (9 * Scale) \div 10     \* 0.9, in 1/Scale
PEG_RADIUS == 12
PEG_SPACING_X == 70
PEG_SPACING_Y == 70
PEG_OFFSET_TOP == 80
NUM_PEG_ROWS == 8
BOX_COUNT == 5
BOX_HEIGHT == 80
BOX_VALUES == <<10, 20, 50, 20, 10>>
PARTICLE_COUNT_ON_COLLISION == 10
PARTICLE_LIFETIME == 30
SPAWN_Y == 30
SPAWN_VX_MAX == 2
BALLS_ALLOWED_MIN == 1
BALLS_ALLOWED_MAX == 50

STATE_MENU == "menu"
STATE_PLAY == "play"
STATE_PAUSE == "pause"
STATE_GAMEOVER == "game_over"
STATE_HIGHSCORE == "highscore"
STATE_SETTINGS == "settings"

Min2(a, b) == IF a < b THEN a ELSE b
Max2(a, b) == IF a > b THEN a ELSE b

clamp(value, min_val, max_val) == Max2(min_val, Min2(value, max_val))

-----------------------------------------------------------------------------
(* Particle *)

\* Particle(x, y, vx, vy, color, lifetime): lifetime is the code's field; age is
\* history, the number of simulation steps begun since the particle was made.
Particle(lifetime) == [lifetime |-> lifetime, age |-> 0]

\* Particle.update
ParticleUpdate(p) == [p EXCEPT !.lifetime = @ - 1]

-----------------------------------------------------------------------------
(* Peg *)

Peg(x, y, radius) == [x |-> x, y |-> y, radius |-> radius, particles |-> <<>>]

MapSeq(F(_), s) == [i \in 1..Len(s) |-> F(s[i])]

\* line 196 with >= for >
ParticleAliveAtZero(p) == p.lifetime >= 0

\* line 196: if p.lifetime > 0
ParticleAlive(p) == p.lifetime > 0

\* Peg.update
PegUpdate(peg) ==
    [peg EXCEPT !.particles = SelectSeq(MapSeq(ParticleUpdate, @), ParticleAlive)]

-----------------------------------------------------------------------------
(* Ball *)

\* Ball(x, y, radius, color).  id, x0, steps and hit are history: the number of
\* the drop in its session, the x the ball was made at, the number of
\* Ball.update calls it has been through (counted up to StepCap) and whether a
\* peg collision has been resolved for it; walled, whether a wall has turned it.
Ball(x, y, radius, id) ==
    [x |-> x, y |-> y, radius |-> radius, vx |-> 0, vy |-> 0,
     finalized |-> FALSE, id |-> id, x0 |-> x, steps |-> 0, hit |-> FALSE,
     walled |-> FALSE]

StepCap == 60

\* The dot product v.n, in 1/(Scale * NScale), is cut down by DotK to a velocity
\* in 1/(Scale * VK), so that its product with a normal stays under 2^31.
DotK == 10 * 10 * 10
VK == NScale \div DotK

\* random.choice of a colour, then PARTICLE_COUNT_ON_COLLISION particles appended
Burst == [i \in 1..PARTICLE_COUNT_ON_COLLISION |-> Particle(PARTICLE_LIFETIME)]

\* The normal (1, 0) the code falls back to when the centres coincide.
FallbackNormal == <<NScale, 0>>

\* line 151 with the difference the wrong way round
OverlapReversed(min_dist, dist_centers) == dist_centers - min_dist

\* line 151
Overlap(min_dist, dist_centers) == min_dist - dist_centers

\* lines 161-162 with the factor 2 left out
ImpulseNoDouble(dot, n) ==
    RoundDiv(RoundDiv(dot * n, NScale) * COLLISION_DAMPING, Scale * VK)

\* lines 161-162: 2 * dot * n * COLLISION_DAMPING, in 1/Scale pixels a step
Impulse(dot, n) ==
    RoundDiv(RoundDiv(2 * dot * n, NScale) * COLLISION_DAMPING, Scale * VK)

\* lines 161-162 with += for -=
ReflectAdd(v, dv) == v + dv

\* lines 161-162: self.vx -= ..., self.vy -= ...
Reflect(v, dv) == v - dv

\* Ball.handle_peg_collision: the ball and the peg after the call.
HandlePegCollision(b, peg) ==
    LET dx == b.x - peg.x
        dy == b.y - peg.y
        min_dist == b.radius + peg.radius
        \* |dx|, |dy| < min_dist is implied by dist_centers < min_dist; it is
        \* tested first so that the square below stays under 2^31
        near == Abs(dx) < min_dist /\ Abs(dy) < min_dist
        dist_centers == Sqrt((dx * dx + dy * dy) * SqrtK * SqrtK)
        overlap == Overlap(min_dist * SqrtK, dist_centers)
        n == IF dist_centers = 0
             THEN FallbackNormal
             ELSE <<RoundDiv(dx * SqrtK * NScale, dist_centers),
                    RoundDiv(dy * SqrtK * NScale, dist_centers)>>
        nx == n[1]
        ny == n[2]
        dot == RoundDiv(b.vx * nx + b.vy * ny, DotK)
        dvx == Impulse(dot, nx)
        dvy == Impulse(dot, ny)
    IN  IF near /\ dist_centers < min_dist * SqrtK
        THEN [ball |-> [b EXCEPT !.x = @ + RoundDiv(nx * overlap, NScale * SqrtK),
                                 !.y = @ + RoundDiv(ny * overlap, NScale * SqrtK),
                                 !.vx = Reflect(@, dvx),
                                 !.vy = Reflect(@, dvy),
                                 !.hit = TRUE],
              peg |-> [peg EXCEPT !.particles = @ \o Burst]]
        ELSE [ball |-> b, peg |-> peg]

\* lines 138-139 passing over every peg that still holds particles
RECURSIVE PegLoopQuietPegs(_, _, _)
PegLoopQuietPegs(b, ps, i) ==
    IF i > Len(ps) THEN [ball |-> b, pegs |-> ps]
    ELSE IF Len(ps[i].particles) > 0 THEN PegLoopQuietPegs(b, ps, i + 1)
    ELSE LET r == HandlePegCollision(b, ps[i])
         IN  PegLoopQuietPegs(r.ball, [ps EXCEPT ![i] = r.peg], i + 1)

\* for peg in pegs: self.handle_peg_collision(peg)
RECURSIVE PegLoop(_, _, _)
PegLoop(b, ps, i) ==
    IF i > Len(ps) THEN [ball |-> b, pegs |-> ps]
    ELSE LET r == HandlePegCollision(b, ps[i])
         IN  PegLoop(r.ball, [ps EXCEPT ![i] = r.peg], i + 1)

\* Ball.update, lines 114-119: gravity, then the speed clamp
Accelerate(b) ==
    LET vy == b.vy + GRAVITY
        speed == Sqrt((b.vx * b.vx + vy * vy) * SqrtK * SqrtK)
        factor == RoundDiv(Px(MAX_BALL_SPEED) * SqrtK * FScale, speed)
    IN  IF speed > Px(MAX_BALL_SPEED) * SqrtK
        THEN [b EXCEPT !.vx = RoundDiv(@ * factor, FScale),
                       !.vy = RoundDiv(vy * factor, FScale)]
        ELSE [b EXCEPT !.vy = vy]

\* Ball.update, lines 121-122
Integrate(b) == [b EXCEPT !.x = @ + b.vx, !.y = @ + b.vy]

\* lines 125-130 without the two assignments to self.x
WallsNoClamp(b) ==
    IF b.x - b.radius < 0 \/ b.x + b.radius > Px(SCREEN_WIDTH)
    THEN [b EXCEPT !.vx = RoundDiv((-@) * WALL_BOUNCE_FACTOR, Scale),
                   !.walled = TRUE]
    ELSE b

\* Ball.update, lines 125-130
Walls(b) ==
    IF b.x - b.radius < 0
    THEN [b EXCEPT !.x = b.radius,
                   !.vx = RoundDiv((-@) * WALL_BOUNCE_FACTOR, Scale),
                   !.walled = TRUE]
    ELSE IF b.x + b.radius > Px(SCREEN_WIDTH)
    THEN [b EXCEPT !.x = Px(SCREEN_WIDTH) - b.radius,
                   !.vx = RoundDiv((-@) * WALL_BOUNCE_FACTOR, Scale),
                   !.walled = TRUE]
    ELSE b

\* Ball.update, lines 133-135
Ceiling(b) ==
    IF b.y - b.radius < 0
    THEN [b EXCEPT !.y = b.radius,
                   !.vy = RoundDiv((-@) * WALL_BOUNCE_FACTOR, Scale)]
    ELSE b

\* lines 142-143 with the ball's upper edge for its lower edge
FinalizeUpperEdge(b, box_y_top) ==
    IF b.y - b.radius >= box_y_top THEN [b EXCEPT !.finalized = TRUE] ELSE b

\* Ball.update, lines 142-143
Finalize(b, box_y_top) ==
    IF b.y + b.radius >= box_y_top THEN [b EXCEPT !.finalized = TRUE] ELSE b

\* Ball.update: the ball and the pegs after the call.
BallUpdate(b, ps, box_y_top) ==
    LET moved == Ceiling(Walls(Integrate(Accelerate(b))))
        r == PegLoop(moved, ps, 1)
    IN  [ball |-> [Finalize(r.ball, box_y_top)
                     EXCEPT !.steps = Min2(@ + 1, StepCap)],
         pegs |-> r.pegs]


-----------------------------------------------------------------------------
(* PlinkoGame: playfield *)

\* One row of init_pegs, lines 292-299
PegRow(row) ==
    LET peg_count == row + 3
        row_width == (peg_count - 1) * PEG_SPACING_X
        start_x == (Px(SCREEN_WIDTH) - Px(row_width)) \div 2
        y_pos == PEG_OFFSET_TOP + row * PEG_SPACING_Y
    IN  [i \in 1..peg_count |->
            Peg(start_x + Px((i - 1) * PEG_SPACING_X), Px(y_pos), Px(PEG_RADIUS))]

RECURSIVE PegRows(_)
PegRows(row) ==
    IF row >= NUM_PEG_ROWS THEN <<>> ELSE PegRow(row) \o PegRows(row + 1)

\* self.pegs.clear()
Cleared(ps) == SubSeq(ps, 1, 0)

\* init_pegs without line 290: the rows are appended to the old list
InitPegsNoClear(ps) == ps \o PegRows(0)

\* PlinkoGame.init_pegs: the peg list after the call on the list ps
InitPegs(ps) == Cleared(ps) \o PegRows(0)

\* pygame.Rect(left, top, width, height)
Rect(left, top, width, height) ==
    [left |-> left, top |-> top, right |-> left + width, bottom |-> top + height]

\* PlinkoGame.init_boxes; the list never changes afterwards
boxes ==
    LET width_per_box == SCREEN_WIDTH \div BOX_COUNT
    IN  [k \in 1..BOX_COUNT |->
            [rect |-> Rect((k - 1) * width_per_box, SCREEN_HEIGHT - BOX_HEIGHT,
                           width_per_box, BOX_HEIGHT),
             value |-> BOX_VALUES[((k - 1) % Len(BOX_VALUES)) + 1]]]

\* The test of handle_ball_box_score, line 466
InBox(ball, rect) ==
    /\ Px(rect.left) <= ball.x
    /\ ball.x <= Px(rect.right)
    /\ ball.y + ball.radius >= Px(rect.top)

RECURSIVE BoxLoop(_, _, _)
BoxLoop(sc, ball, k) ==
    IF k > Len(boxes) THEN sc
    ELSE IF InBox(ball, boxes[k].rect) THEN sc + boxes[k].value   \* break
    ELSE BoxLoop(sc, ball, k + 1)

\* handle_ball_box_score without its break: every box that matches adds
RECURSIVE BoxLoopNoBreak(_, _, _)
BoxLoopNoBreak(sc, ball, k) ==
    IF k > Len(boxes) THEN sc
    ELSE BoxLoopNoBreak(IF InBox(ball, boxes[k].rect) THEN sc + boxes[k].value ELSE sc,
                        ball, k + 1)
HandleBallBoxScoreNoBreak(sc, ball) == BoxLoopNoBreak(sc, ball, 1)

\* PlinkoGame.handle_ball_box_score: the score after the call
HandleBallBoxScore(sc, ball) == BoxLoop(sc, ball, 1)

-----------------------------------------------------------------------------
(* PlinkoGame: update_play *)

IsFinalized(b) == b.finalized
NotFinalized(b) == ~b.finalized

\* lines 445-446
UpdatePegs(ps) == MapSeq(PegUpdate, ps)

\* lines 449-451: every ball that is not finalized is updated, in list order
RECURSIVE BallLoop(_, _, _, _)
BallLoop(bs, ps, box_y_top, i) ==
    IF i > Len(bs) THEN [balls |-> bs, pegs |-> ps]
    ELSE IF ~bs[i].finalized
    THEN LET r == BallUpdate(bs[i], ps, box_y_top)
         IN  BallLoop([bs EXCEPT ![i] = r.ball], r.pegs, box_y_top, i + 1)
    ELSE BallLoop(bs, ps, box_y_top, i + 1)

\* lines 445-451: pegs first, then balls
Simulate(bs, ps) ==
    BallLoop(bs, UpdatePegs(ps), Px(SCREEN_HEIGHT - BOX_HEIGHT), 1)

\* line 453
FinalizedBalls(bs) == SelectSeq(bs, IsFinalized)

\* lines 454-455
RECURSIVE ScoreLoop(_, _, _)
ScoreLoop(sc, fs, i) ==
    IF i > Len(fs) THEN sc ELSE ScoreLoop(HandleBallBoxScore(sc, fs[i]), fs, i + 1)

\* line 456 without its filter: the list is kept as it is
RemainingBallsKeepAll(bs) == bs

\* line 456
RemainingBalls(bs) == SelectSeq(bs, NotFinalized)

\* line 458 without its second condition: balls in flight are not waited for
AllBallsUsedInFlight(dropped, allowed, bs) == dropped = allowed

\* line 458
AllBallsUsed(dropped, allowed, bs) == dropped = allowed /\ Len(bs) = 0

\* History: every particle one simulation step older.
OlderParticle(p) == [p EXCEPT !.age = @ + 1]
OlderPeg(peg) == [peg EXCEPT !.particles = MapSeq(OlderParticle, @)]

\* History: the ages of the particles that some peg of ps holds more of than
\* the same peg of qs does, where qs is ps after the simulation of one step.
CountAge(parts, a) == Cardinality({k \in 1..Len(parts) : parts[k].age = a})
Ages(parts) == {parts[k].age : k \in 1..Len(parts)}
Gone(ps, qs) ==
    UNION {{a \in Ages(ps[i].particles) :
               CountAge(ps[i].particles, a) > CountAge(qs[i].particles, a)}
           : i \in {j \in 1..Len(ps) : Len(ps[j].particles) > 0}}

\* History: the record of a ball handed to handle_ball_box_score
Scored(b, sc) ==
    [id |-> b.id, x |-> b.x, y |-> b.y, vx |-> b.vx, vy |-> b.vy, x0 |-> b.x0,
     radius |-> b.radius, steps |-> b.steps, hit |-> b.hit,
     walled |-> b.walled,
     delta |-> HandleBallBoxScore(sc, b) - sc]

RECURSIVE ScoredLoop(_, _, _)
ScoredLoop(sc, fs, i) ==
    IF i > Len(fs) THEN <<>>
    ELSE <<Scored(fs[i], sc)>> \o ScoredLoop(HandleBallBoxScore(sc, fs[i]), fs, i + 1)

Op(name) == [op |-> name, balls |-> 0, particles |-> 0]
Other == Op("other")

\* PlinkoGame.update_play
UpdatePlay ==
    /\ state = STATE_PLAY
    /\ \E older \in {MapSeq(OlderPeg, pegs)} :
       \E sim \in {Simulate(balls, older)} :
       \E finalized_balls \in {FinalizedBalls(sim.balls)} :
       \E new_score \in {ScoreLoop(score, finalized_balls, 1)} :
       \E new_balls \in {RemainingBalls(sim.balls)} :
       \E over \in {AllBallsUsed(balls_dropped, balls_allowed, new_balls)} :
           /\ pegs' = sim.pegs
           /\ balls' = new_balls
           /\ score' = new_score
           /\ game_over_reason' = IF over THEN "All Balls Used" ELSE game_over_reason
           /\ best_score' = IF over /\ new_score > best_score
                            THEN new_score ELSE best_score
           /\ state' = IF over THEN STATE_GAMEOVER ELSE state
           /\ scored' = scored \o ScoredLoop(score, finalized_balls, 1)
           /\ expired' = Gone(older, sim.pegs)
    /\ lastOp' = Other
    /\ UNCHANGED <<debug_mode, balls_allowed, balls_dropped>>

-----------------------------------------------------------------------------
(* PlinkoGame: construction, reset and the event handlers *)

\* The budget a model run starts with and the most Balls+ raises it to.  The
\* program starts with 25 and keeps the budget in BALLS_ALLOWED_MIN ..
\* BALLS_ALLOWED_MAX; every budget from BALLS_ALLOWED_MIN up is reached from 25
\* by pressing Balls- in the settings before the first session.
MaxBudget == 2

\* The player clicks while fewer than MaxActive balls are in flight, and goes on
\* clicking once the budget is used up.
MaxActive == 2

\* The x of a left click in PLAY (pygame.mouse.get_pos) and the vx drawn by
\* random.uniform(-2, 2), in 1/Scale pixels.
ClickXs == {Px(150)}
SpawnVxs == {-(Px(SPAWN_VX_MAX) \div 2)}

CountParticles(ps) ==
    LET RECURSIVE Sum(_)
        Sum(i) == IF i > Len(ps) THEN 0 ELSE Len(ps[i].particles) + Sum(i + 1)
    IN  Sum(1)

\* PlinkoGame.__init__
Init ==
    /\ state = STATE_MENU
    /\ debug_mode = FALSE
    /\ score = 0
    /\ balls_allowed = MaxBudget
    /\ balls_dropped = 0
    /\ best_score = 0
    /\ pegs = InitPegs(<<>>)
    /\ balls = <<>>
    /\ game_over_reason = ""
    /\ lastOp = Other
    /\ scored = <<>>
    /\ expired = {}

\* PlinkoGame.reset_game
ResetGame ==
    /\ score' = 0
    /\ balls_dropped' = 0
    /\ balls' = Cleared(balls)
    /\ game_over_reason' = ""
    /\ pegs' = InitPegs(pegs)
    /\ scored' = <<>>
    /\ expired' = {}

\* handle_menu_events, Play
MenuPlay ==
    /\ state = STATE_MENU
    /\ ResetGame
    /\ state' = STATE_PLAY
    /\ lastOp' = [op |-> "reset_game", balls |-> Len(balls),
                  particles |-> CountParticles(pegs)]
    /\ UNCHANGED <<debug_mode, balls_allowed, best_score>>

\* handle_menu_events, High Scores
MenuHighscore ==
    /\ state = STATE_MENU
    /\ state' = STATE_HIGHSCORE
    /\ lastOp' = Other
    /\ UNCHANGED <<debug_mode, score, balls_allowed, balls_dropped, best_score,
                   pegs, balls, game_over_reason, scored, expired>>

\* handle_menu_events, Settings
MenuSettings ==
    /\ state = STATE_MENU
    /\ state' = STATE_SETTINGS
    /\ lastOp' = Other
    /\ UNCHANGED <<debug_mode, score, balls_allowed, balls_dropped, best_score,
                   pegs, balls, game_over_reason, scored, expired>>

\* handle_play_events, K_ESCAPE
PlayEscape ==
    /\ state = STATE_PLAY
    /\ state' = STATE_PAUSE
    /\ lastOp' = Other
    /\ UNCHANGED <<debug_mode, score, balls_allowed, balls_dropped, best_score,
                   pegs, balls, game_over_reason, scored, expired>>

\* handle_play_events, a left click on the pause button
PlayClickPause ==
    /\ state = STATE_PLAY
    /\ state' = STATE_PAUSE
    /\ lastOp' = Other
    /\ UNCHANGED <<debug_mode, score, balls_allowed, balls_dropped, best_score,
                   pegs, balls, game_over_reason, scored, expired>>

\* lines 504-509: the ball a click at mx makes, with the vx drawn for it
Spawn(mx, vx, id) == [Ball(mx, Px(SPAWN_Y), Px(BALL_RADIUS), id) EXCEPT !.vx = vx]

\* line 503 with <= for <
BudgetLeftOffByOne(dropped, allowed) == dropped <= allowed

\* line 503
BudgetLeft(dropped, allowed) == dropped < allowed

\* handle_play_events, a left click anywhere else
PlayClick(mx, vx) ==
    /\ state = STATE_PLAY
    /\ Len(balls) < MaxActive \/ balls_dropped >= balls_allowed
    /\ IF BudgetLeft(balls_dropped, balls_allowed)
       THEN /\ balls' = Append(balls, Spawn(mx, vx, balls_dropped + 1))
            /\ balls_dropped' = balls_dropped + 1
            /\ lastOp' = Other
       ELSE /\ UNCHANGED <<balls, balls_dropped>>
            /\ lastOp' = Op("drop_refused")
    /\ UNCHANGED <<state, debug_mode, score, balls_allowed, best_score, pegs,
                   game_over_reason, scored, expired>>

\* handle_pause_events, K_ESCAPE
PauseEscape ==
    /\ state = STATE_PAUSE
    /\ state' = STATE_PLAY
    /\ lastOp' = Other
    /\ UNCHANGED <<debug_mode, score, balls_allowed, balls_dropped, best_score,
                   pegs, balls, game_over_reason, scored, expired>>

\* handle_pause_events, Resume
PauseResume ==
    /\ state = STATE_PAUSE
    /\ state' = STATE_PLAY
    /\ lastOp' = Other
    /\ UNCHANGED <<debug_mode, score, balls_allowed, balls_dropped, best_score,
                   pegs, balls, game_over_reason, scored, expired>>

\* handle_pause_events, Settings
PauseSettings ==
    /\ state = STATE_PAUSE
    /\ state' = STATE_SETTINGS
    /\ lastOp' = Other
    /\ UNCHANGED <<debug_mode, score, balls_allowed, balls_dropped, best_score,
                   pegs, balls, game_over_reason, scored, expired>>

\* handle_pause_events, Main Menu
PauseMenu ==
    /\ state = STATE_PAUSE
    /\ state' = STATE_MENU
    /\ lastOp' = Other
    /\ UNCHANGED <<debug_mode, score, balls_allowed, balls_dropped, best_score,
                   pegs, balls, game_over_reason, scored, expired>>

\* handle_gameover_events, Main Menu
GameoverMenu ==
    /\ state = STATE_GAMEOVER
    /\ state' = STATE_MENU
    /\ lastOp' = Other
    /\ UNCHANGED <<debug_mode, score, balls_allowed, balls_dropped, best_score,
                   pegs, balls, game_over_reason, scored, expired>>

\* handle_highscore_events, Main Menu
HighscoreMenu ==
    /\ state = STATE_HIGHSCORE
    /\ state' = STATE_MENU
    /\ lastOp' = Other
    /\ UNCHANGED <<debug_mode, score, balls_allowed, balls_dropped, best_score,
                   pegs, balls, game_over_reason, scored, expired>>

\* handle_settings_events, Toggle Debug (Settings.toggle_debug)
SettingsToggleDebug ==
    /\ state = STATE_SETTINGS
    /\ debug_mode' = ~debug_mode
    /\ lastOp' = Other
    /\ UNCHANGED <<state, score, balls_allowed, balls_dropped, best_score,
                   pegs, balls, game_over_reason, scored, expired>>

\* handle_settings_events, Balls-
SettingsBallsMinus ==
    /\ state = STATE_SETTINGS
    /\ balls_allowed' = clamp(balls_allowed - 1, BALLS_ALLOWED_MIN, BALLS_ALLOWED_MAX)
    /\ lastOp' = Other
    /\ UNCHANGED <<state, debug_mode, score, balls_dropped, best_score,
                   pegs, balls, game_over_reason, scored, expired>>

\* handle_settings_events, Balls+ (pressed while the budget is under MaxBudget)
SettingsBallsPlus ==
    /\ state = STATE_SETTINGS
    /\ balls_allowed < MaxBudget
    /\ balls_allowed' = clamp(balls_allowed + 1, BALLS_ALLOWED_MIN, BALLS_ALLOWED_MAX)
    /\ lastOp' = Other
    /\ UNCHANGED <<state, debug_mode, score, balls_dropped, best_score,
                   pegs, balls, game_over_reason, scored, expired>>

\* handle_settings_events, Back
SettingsBack ==
    /\ state = STATE_SETTINGS
    /\ state' = STATE_MENU
    /\ lastOp' = Other
    /\ UNCHANGED <<debug_mode, score, balls_allowed, balls_dropped, best_score,
                   pegs, balls, game_over_reason, scored, expired>>

PlayClickAny == \E mx \in ClickXs, vx \in SpawnVxs : PlayClick(mx, vx)

\* PlinkoGame.handle_events and PlinkoGame.update, one event or one update at a
\* time: main() handles the queued events, then updates, every frame.
Next ==
    \/ MenuPlay
    \/ MenuHighscore
    \/ MenuSettings
    \/ PlayEscape
    \/ PlayClickPause
    \/ PlayClickAny
    \/ UpdatePlay
    \/ PauseEscape
    \/ PauseResume
    \/ PauseSettings
    \/ PauseMenu
    \/ GameoverMenu
    \/ HighscoreMenu
    \/ SettingsToggleDebug
    \/ SettingsBallsMinus
    \/ SettingsBallsPlus
    \/ SettingsBack

Spec == Init /\ [][Next]_vars


-----------------------------------------------------------------------------
(* One ball on the reference playfield, from every click and every vx of a grid *)

\* The clicks are ClickStride pixels apart, from 0 to the last x of the screen.
ClickStride == 40
PhysClickXs ==
    {Px(k * ClickStride) : k \in 0..((SCREEN_WIDTH - 1) \div ClickStride)}
      \cup {Px(SCREEN_WIDTH - 1)}

\* The values of random.uniform(-2, 2) tried: both ends, zero, and two between.
PhysVxs == {-Px(SPAWN_VX_MAX), -(Px(SPAWN_VX_MAX) \div 2), 0,
            (3 * Px(SPAWN_VX_MAX)) \div 8, Px(SPAWN_VX_MAX)}

\* A session just started with Play, the budget lowered to BALLS_ALLOWED_MIN in
\* the settings before.
InitPhys ==
    /\ state = STATE_PLAY
    /\ debug_mode = FALSE
    /\ score = 0
    /\ balls_allowed = BALLS_ALLOWED_MIN
    /\ balls_dropped = 0
    /\ best_score = 0
    /\ pegs = InitPegs(<<>>)
    /\ balls = <<>>
    /\ game_over_reason = ""
    /\ lastOp = Other
    /\ scored = <<>>
    /\ expired = {}

\* The one click of the session.
PhysClick ==
    /\ balls_dropped = 0
    /\ \E mx \in PhysClickXs, vx \in PhysVxs : PlayClick(mx, vx)

NextPhys == PhysClick \/ UpdatePlay

SpecPhys == InitPhys /\ [][NextPhys]_vars


-----------------------------------------------------------------------------
(* Scenario A: one ball, no initial velocity, a playfield without pegs *)

\* The clicks are ScenarioStride pixels apart from BALL_RADIUS on, with the last
\* x a ball can rest at and the edges the boxes share added.
ScenarioStride == 8
ScenarioXs ==
    {Px(BALL_RADIUS + k * ScenarioStride) :
        k \in 0..((SCREEN_WIDTH - 2 * BALL_RADIUS) \div ScenarioStride)}
      \cup {Px(SCREEN_WIDTH - BALL_RADIUS)}
      \cup {Px(k * (SCREEN_WIDTH \div BOX_COUNT)) : k \in 1..(BOX_COUNT - 1)}

InitScenarioA ==
    /\ state = STATE_PLAY
    /\ debug_mode = FALSE
    /\ score = 0
    /\ balls_allowed = BALLS_ALLOWED_MIN
    /\ balls_dropped = 0
    /\ best_score = 0
    /\ pegs = <<>>
    /\ balls = <<>>
    /\ game_over_reason = ""
    /\ lastOp = Other
    /\ scored = <<>>
    /\ expired = {}

\* The one click of the session.
ScenarioClick ==
    /\ balls_dropped = 0
    /\ \E mx \in ScenarioXs : PlayClick(mx, 0)

NextScenarioA == ScenarioClick \/ UpdatePlay

SpecScenarioA == InitScenarioA /\ [][NextScenarioA]_vars

-----------------------------------------------------------------------------
(* Ball.handle_peg_collision as a function: one ball, one peg, one call *)

\* The ball's centre is offset from the peg's by multiples of OffsetStep, up to
\* the sum of the radii each way; its velocity is made of multiples of VelStep.
OffsetStep == 200
VelStep == 350
VelSteps == 6
Offsets ==
    {k * OffsetStep :
        k \in -(Px(BALL_RADIUS + PEG_RADIUS) \div OffsetStep)
              ..(Px(BALL_RADIUS + PEG_RADIUS) \div OffsetStep)}
Velocities == {k * VelStep : k \in -VelSteps..VelSteps}

ThePeg == PegRow(3)[3]

InitCollide ==
    /\ state = STATE_PLAY
    /\ debug_mode = FALSE
    /\ score = 0
    /\ balls_allowed = BALLS_ALLOWED_MIN
    /\ balls_dropped = 1
    /\ best_score = 0
    /\ pegs = <<ThePeg>>
    /\ \E dx \in Offsets, dy \in Offsets, vx \in Velocities, vy \in Velocities :
          balls = <<[Ball(ThePeg.x + dx, ThePeg.y + dy, Px(BALL_RADIUS), 1)
                       EXCEPT !.vx = vx, !.vy = vy]>>
    /\ game_over_reason = ""
    /\ lastOp = Other
    /\ scored = <<>>
    /\ expired = {}

\* self.handle_peg_collision(peg), once
Collide ==
    /\ lastOp = Other
    /\ \E r \in {HandlePegCollision(balls[1], pegs[1])} :
          /\ balls' = <<r.ball>>
          /\ pegs' = <<r.peg>>
    /\ lastOp' = [op |-> "handle_peg_collision", before |-> balls[1]]
    /\ UNCHANGED <<state, debug_mode, score, balls_allowed, balls_dropped,
                   best_score, game_over_reason, scored, expired>>

NextCollide == Collide

SpecCollide == InitCollide /\ [][NextCollide]_vars

-----------------------------------------------------------------------------
(* PlinkoGame.handle_ball_box_score as a function: a few balls, one call each *)

\* The balls handed over: one on every edge and at every centre of a box, one
\* to the left of the first box and one to the right of the last, all with the
\* lower edge on the top of the boxes, and one at a centre but above the boxes.
HalfBox == (SCREEN_WIDTH \div BOX_COUNT) \div 2
ScoreInputs ==
    [k \in 1..(2 * BOX_COUNT + 4) |->
        IF k = 2 * BOX_COUNT + 4
        THEN [Ball(Px(HalfBox), Px(SCREEN_HEIGHT \div 2), Px(BALL_RADIUS), k)
                EXCEPT !.finalized = TRUE]
        ELSE [Ball(Px((k - 2) * HalfBox),
                   Px(SCREEN_HEIGHT - BOX_HEIGHT - BALL_RADIUS), Px(BALL_RADIUS), k)
                EXCEPT !.finalized = TRUE]]

\* At most MaxScoreCalls balls are handed over.
MaxScoreCalls == 7

InitScore ==
    /\ state = STATE_PLAY
    /\ debug_mode = FALSE
    /\ score = 0
    /\ balls_allowed = BALLS_ALLOWED_MAX
    /\ balls_dropped = 0
    /\ best_score = 0
    /\ pegs = <<>>
    /\ balls = <<>>
    /\ game_over_reason = ""
    /\ lastOp = Other
    /\ scored = <<>>
    /\ expired = {}

\* self.handle_ball_box_score(b); the balls are taken in the order of
\* ScoreInputs, any of them left out
ScoreCall(k) ==
    /\ Len(scored) < MaxScoreCalls
    /\ Len(scored) > 0 => scored[Len(scored)].id < k
    /\ score' = HandleBallBoxScore(score, ScoreInputs[k])
    /\ scored' = Append(scored, Scored(ScoreInputs[k], score))
    /\ UNCHANGED <<state, debug_mode, balls_allowed, balls_dropped, best_score,
                   pegs, balls, game_over_reason, lastOp, expired>>

ScoreAny == \E k \in 1..Len(ScoreInputs) : ScoreCall(k)

NextScore == ScoreAny

SpecScore == InitScore /\ [][NextScore]_vars


-----------------------------------------------------------------------------
(* Properties *)

ActiveIds == {balls[i].id : i \in 1..Len(balls)}
ScoredIds == {scored[i].id : i \in 1..Len(scored)}
BoxTop == Px(SCREEN_HEIGHT - BOX_HEIGHT)

\* C1: the life of a ball is one-way, Active -> Finalized.  Between two
\* handlers no ball of the active collection is finalized; every ball dropped
\* in the session is either active or has been handed to handle_ball_box_score,
\* never both and never twice; and a ball that was handed over had its lower edge
\* on or below the top of the boxes, that is, it was handed over by the step
\* that finalized it.
BallLifecycle ==
    /\ \A i \in 1..Len(balls) : ~balls[i].finalized
    /\ ActiveIds \cap ScoredIds = {}
    /\ ActiveIds \cup ScoredIds = 1..balls_dropped
    /\ Cardinality(ActiveIds) = Len(balls)
    /\ Cardinality(ScoredIds) = Len(scored)
    /\ \A i \in 1..Len(scored) : scored[i].y + scored[i].radius >= BoxTop

\* A session in which one ball has been scored and removed while a later one
\* is in flight.
BallLifecycleWitness ==
    /\ Len(scored) >= 1
    /\ Len(balls) >= 1
    /\ balls[1].steps >= 1

\* The value the scoring rule gives a ball at (x, y): that of the leftmost box
\* whose closed span holds x, if the ball's lower edge is at or below the top of
\* the boxes, and nothing otherwise.
BoxesHolding(x) ==
    {k \in 1..BOX_COUNT :
        /\ Px((k - 1) * (SCREEN_WIDTH \div BOX_COUNT)) <= x
        /\ x <= Px(k * (SCREEN_WIDTH \div BOX_COUNT))}
ExpectedValue(x, lower_edge) ==
    IF BoxesHolding(x) = {} \/ lower_edge < BoxTop
    THEN 0
    ELSE BOX_VALUES[CHOOSE k \in BoxesHolding(x) : \A j \in BoxesHolding(x) : k <= j]

RECURSIVE SumDelta(_, _)
SumDelta(log, ids) ==
    IF Len(log) = 0 THEN 0
    ELSE (IF Head(log).id \in ids THEN Head(log).delta ELSE 0) + SumDelta(Tail(log), ids)

\* The balls of ScoreInputs at the centre of a box, on an edge two boxes share,
\* and in no box.
CentreIds == {2 * k + 1 : k \in 1..BOX_COUNT}
SharedEdgeIds == {2 * k + 2 : k \in 1..(BOX_COUNT - 1)}
NoBoxIds == {1, 2 * BOX_COUNT + 3, 2 * BOX_COUNT + 4}

\* C2: every ball handed to handle_ball_box_score adds exactly the value of the
\* first box, from the left, whose closed span holds its x and whose top is at or
\* above its lower edge, and adds nothing when there is no such box; the score
\* is the sum of what the balls added; the BOX_COUNT balls at the centres of the
\* boxes add 110 together.
ScoreRule ==
    /\ \A i \in 1..Len(scored) :
          scored[i].delta = ExpectedValue(scored[i].x, scored[i].y + scored[i].radius)
    /\ score = SumDelta(scored, ScoredIds)
    /\ CentreIds \subseteq ScoredIds => SumDelta(scored, CentreIds) = 110

\* All the balls at the centres have been scored, and with them one on a shared
\* edge and one that is in no box.
ScoreRuleWitness ==
    /\ CentreIds \subseteq ScoredIds
    /\ SharedEdgeIds \cap ScoredIds # {}
    /\ NoBoxIds \cap ScoredIds # {}

InSession == state \in {STATE_PLAY, STATE_PAUSE, STATE_GAMEOVER}

\* C3, as stated: balls_dropped <= balls_allowed in every reachable state.
BudgetAlways == balls_dropped <= balls_allowed

\* C3, amended: a click in PLAY is refused only when the budget is used up, and
\* then changes neither the balls nor balls_dropped; every counted drop made
\* exactly one ball; and balls_dropped <= balls_allowed holds on the screens of a
\* running session (PLAY, PAUSE, GAMEOVER).
BudgetInSession ==
    /\ InSession => balls_dropped <= balls_allowed
    /\ lastOp.op = "drop_refused" => balls_dropped = balls_allowed
    /\ Len(balls) + Len(scored) = balls_dropped

\* A click was refused while the last ball of the budget was in flight.
BudgetInSessionWitness ==
    /\ lastOp.op = "drop_refused"
    /\ Len(balls) >= 1
    /\ balls_dropped = balls_allowed

\* The balls that have been through at least one Ball.update: those still in
\* the list, and those the same call handed over, as they were handed over.
Stepped == {balls[i] : i \in {j \in 1..Len(balls) : balls[j].steps >= 1}}
HandedOver == {scored[i] : i \in 1..Len(scored)}

SpeedSquared(b) == b.vx * b.vx + b.vy * b.vy

\* C4: after any Ball.update, of a ball dropped with |vx| <= 2 and vy = 0 on
\* the playfield of init_pegs, the speed sqrt(vx^2 + vy^2) is at most
\* MAX_BALL_SPEED.
SpeedCap ==
    /\ \A b \in Stepped : SpeedSquared(b) <= Px(MAX_BALL_SPEED) * Px(MAX_BALL_SPEED)
    /\ \A r \in HandedOver : SpeedSquared(r) <= Px(MAX_BALL_SPEED) * Px(MAX_BALL_SPEED)

\* A ball that a peg has given more horizontal speed than any drop starts with
\* has reached the boxes.
SpeedCapWitness ==
    \E r \in HandedOver :
        /\ r.hit
        /\ Abs(r.vx) > Px(SPAWN_VX_MAX)

\* C5: after any Ball.update, of a ball dropped at any click x in
\* [0, SCREEN_WIDTH) on the playfield of init_pegs, radius <= x <=
\* SCREEN_WIDTH - radius, the pushes of the pegs that follow the wall clamp in
\* the same call included.
WallContainment ==
    /\ \A b \in Stepped : b.radius <= b.x /\ b.x <= Px(SCREEN_WIDTH) - b.radius
    /\ \A r \in HandedOver : r.radius <= r.x /\ r.x <= Px(SCREEN_WIDTH) - r.radius

\* A ball has been pushed by a peg and has been turned by a wall.
WallContainmentWitness ==
    \E b \in Stepped :
        /\ b.walled
        /\ b.hit

AllParticles ==
    UNION {{pegs[i].particles[j] : j \in 1..Len(pegs[i].particles)} : i \in 1..Len(pegs)}

\* C8: a particle made with lifetime PARTICLE_LIFETIME in one update_play is in
\* its peg's list after each of the next PARTICLE_LIFETIME - 1 calls and is
\* removed by the PARTICLE_LIFETIME-th, never by an earlier or a later one; the
\* call that makes it does not age it.  age counts the update_play calls since
\* the one that made the particle.
ParticleExpiry ==
    /\ \A p \in AllParticles :
          /\ 0 <= p.age /\ p.age <= PARTICLE_LIFETIME - 1
          /\ p.lifetime = PARTICLE_LIFETIME - p.age
    /\ expired \subseteq {PARTICLE_LIFETIME}

\* An update_play has just removed particles, and a younger burst is still on
\* its peg.
ParticleExpiryWitness ==
    /\ expired = {PARTICLE_LIFETIME}
    /\ \E p \in AllParticles : p.age >= 1

\* handle_peg_collision has been called; lastOp.before is the ball as it was.
Resolved == lastOp.op = "handle_peg_collision"

DistSquared(b, peg) == (b.x - peg.x) * (b.x - peg.x) + (b.y - peg.y) * (b.y - peg.y)
MinDist(b, peg) == b.radius + peg.radius
Overlapping(b, peg) == DistSquared(b, peg) < MinDist(b, peg) * MinDist(b, peg)
Coincident(b, peg) == b.x = peg.x /\ b.y = peg.y

\* A vector along the collision normal: from the peg's centre to the ball's, and
\* (1, 0) when the two coincide.
NormalDir(b, peg) ==
    IF Coincident(b, peg) THEN <<1, 0>> ELSE <<b.x - peg.x, b.y - peg.y>>
Along(b, n) == b.vx * n[1] + b.vy * n[2]
Across(b, n) == b.vy * n[1] - b.vx * n[2]
Span(n) == Abs(n[1]) + Abs(n[2])

\* C6: when handle_peg_collision is applied to a ball and a peg whose centres
\* are closer than the sum of the radii, the ball is moved along the line from
\* the peg's centre through its own, to the side it was on, until the distance
\* of the centres is the sum of the radii (to within one unit of the fixed
\* point, 1/Scale pixel); with the centres coinciding it ends at exactly
\* peg.x + ball.radius + peg.radius with y unchanged.  A ball that does not
\* overlap the peg is left as it is.
PegNonPenetration ==
    Resolved =>
        LET b0 == lastOp.before
            b1 == balls[1]
            peg == pegs[1]
            m == MinDist(b0, peg)
            n == NormalDir(b0, peg)
        IN  IF Overlapping(b0, peg)
            THEN /\ (m - 1) * (m - 1) <= DistSquared(b1, peg)
                 /\ DistSquared(b1, peg) <= (m + 1) * (m + 1)
                 /\ (b1.x - peg.x) * n[1] + (b1.y - peg.y) * n[2] > 0
                 /\ Abs((b1.y - peg.y) * n[1] - (b1.x - peg.x) * n[2]) <= Span(n)
                 /\ Coincident(b0, peg) => b1.x = peg.x + m /\ b1.y = b0.y
                 /\ Len(peg.particles) = PARTICLE_COUNT_ON_COLLISION
            ELSE /\ b1 = b0
                 /\ peg = ThePeg

\* A ball overlapping the peg from an oblique direction has been moved.
PegNonPenetrationWitness ==
    /\ Resolved
    /\ Overlapping(lastOp.before, pegs[1])
    /\ lastOp.before.x # pegs[1].x
    /\ lastOp.before.y # pegs[1].y
    /\ balls[1].x # lastOp.before.x

\* C7 without its first clause: the component of the velocity across the
\* normal is unchanged, and the speed is not increased, each to within one unit
\* of the fixed point in vx and in vy.
NoEnergyGain ==
    LET b0 == lastOp.before
        b1 == balls[1]
        n == NormalDir(b0, pegs[1])
    IN  /\ Abs(Across(b1, n) - Across(b0, n)) <= Span(n)
        /\ SpeedSquared(b1) <= (Abs(b0.vx) + 1) * (Abs(b0.vx) + 1)
                                 + (Abs(b0.vy) + 1) * (Abs(b0.vy) + 1)

\* The component along the normal has changed its sign and has become strictly
\* smaller in magnitude.
NormalReversed ==
    LET b0 == lastOp.before
        b1 == balls[1]
        n == NormalDir(b0, pegs[1])
    IN  /\ Along(b0, n) >= 0 => Along(b1, n) < 0
        /\ Along(b0, n) <= 0 => Along(b1, n) > 0
        /\ Abs(Along(b1, n)) < Abs(Along(b0, n))

\* C7, as stated: for every collision resolved by handle_peg_collision, with
\* any incoming velocity, the component along the normal is reversed in sign and
\* strictly smaller in magnitude, the component across it is unchanged and the
\* speed is not increased.
EnergyLossAlways ==
    (Resolved /\ Overlapping(lastOp.before, pegs[1])) =>
        NormalReversed /\ NoEnergyGain

\* C7, amended: when the incoming velocity has a component along the normal,
\* that component is reversed in sign and becomes strictly smaller in
\* magnitude, 2 * COLLISION_DAMPING - 1 = 0.8 times what it was; when it has
\* none (the ball is at rest, or moves exactly across the normal) the velocity
\* is left as it is; in both cases the component across the normal is unchanged
\* and the speed is not increased.  The factor is met to within two units of the
\* fixed point.
EnergyLoss ==
    (Resolved /\ Overlapping(lastOp.before, pegs[1])) =>
        LET b0 == lastOp.before
            b1 == balls[1]
            n == NormalDir(b0, pegs[1])
        IN  /\ Along(b0, n) # 0 =>
                /\ NormalReversed
                /\ Abs(Scale * Along(b1, n)
                         + (2 * COLLISION_DAMPING - Scale) * Along(b0, n))
                     <= 2 * Scale * Span(n)
            /\ Along(b0, n) = 0 => b1.vx = b0.vx /\ b1.vy = b0.vy
            /\ NoEnergyGain

\* A ball moving towards the peg, neither along the normal nor across it, has
\* bounced.
EnergyLossWitness ==
    /\ Resolved
    /\ Overlapping(lastOp.before, pegs[1])
    /\ Along(lastOp.before, NormalDir(lastOp.before, pegs[1])) < 0
    /\ Across(lastOp.before, NormalDir(lastOp.before, pegs[1])) # 0
    /\ balls[1].vx # lastOp.before.vx

\* C9: on a playfield without pegs, a ball dropped at y = SPAWN_Y with no
\* velocity at any x in [radius, SCREEN_WIDTH - radius] falls straight down (x
\* stays the click's x, vx stays 0, vy grows by GRAVITY a step), is finalized
\* by the first step that brings its lower edge to the top of the boxes, which
\* comes before StepCap steps, has then a vy of at most MAX_BALL_SPEED, and adds
\* to the score the value of the box that holds its x.
FreeFall ==
    /\ \A i \in 1..Len(balls) :
          /\ balls[i].x = balls[i].x0
          /\ balls[i].vx = 0
          /\ balls[i].steps < StepCap
          /\ balls[i].vy = balls[i].steps * GRAVITY
    /\ \A r \in HandedOver :
          /\ r.x = r.x0
          /\ r.vx = 0
          /\ r.steps < StepCap
          /\ r.vy = r.steps * GRAVITY
          /\ r.vy <= Px(MAX_BALL_SPEED)
          /\ r.y + r.radius >= BoxTop
          /\ (r.y - r.vy) + r.radius < BoxTop
          /\ r.delta = ExpectedValue(r.x, r.y + r.radius)
          /\ r.delta \in {BOX_VALUES[k] : k \in BoxesHolding(r.x)}
    /\ score = SumDelta(scored, ScoredIds)

\* A ball dropped on an edge two boxes share has fallen into the boxes and has
\* been scored.
FreeFallWitness ==
    \E r \in HandedOver :
        /\ Cardinality(BoxesHolding(r.x)) > 1
        /\ r.steps > 1
        /\ score = r.delta

\* The pegs of row r of the list, and the number init_pegs is to make.
RowOf(r) == {i \in 1..Len(pegs) : pegs[i].y = Px(PEG_OFFSET_TOP + r * PEG_SPACING_Y)}
RECURSIVE TriangularTotal(_)
TriangularTotal(r) == IF r >= NUM_PEG_ROWS THEN 0 ELSE (r + 3) + TriangularTotal(r + 1)

\* C10: after reset_game, whatever the previous session left (balls in flight,
\* live particles), the peg list holds the sum of r + 3 over the rows, 52 pegs,
\* r + 3 of them in row r, all at different places; no ball is active and no
\* peg holds a particle.  Every reset is made on a list that holds pegs
\* already, so the count would grow if the list were not cleared.
PlayfieldReset ==
    lastOp.op = "reset_game" =>
        /\ Len(pegs) = TriangularTotal(0)
        /\ Len(pegs) = 52
        /\ \A r \in 0..(NUM_PEG_ROWS - 1) : Cardinality(RowOf(r)) = r + 3
        /\ Cardinality({<<pegs[i].x, pegs[i].y>> : i \in 1..Len(pegs)}) = Len(pegs)
        /\ balls = <<>>
        /\ CountParticles(pegs) = 0
        /\ scored = <<>>

\* Play has been pressed in the menu with a ball of the previous session still
\* in flight and particles still on a peg.
PlayfieldResetWitness ==
    /\ lastOp.op = "reset_game"
    /\ lastOp.balls > 0
    /\ lastOp.particles > 0

\* The playfield with the particles taken off every peg.
NoParticles(ps) == [i \in 1..Len(ps) |-> [ps[i] EXCEPT !.particles = <<>>]]

\* What update_play makes of the balls and the score when it is run on the
\* playfield without its particles.
PlainStep ==
    LET sim == Simulate(balls, NoParticles(pegs))
    IN  [balls |-> RemainingBalls(sim.balls),
         score |-> ScoreLoop(score, FinalizedBalls(sim.balls), 1)]

AtRest ==
    /\ state = STATE_PLAY
    /\ Len(balls) > 0
    /\ \E sim \in {Simulate(balls, MapSeq(OlderPeg, pegs))} :
          /\ sim.balls = balls
          /\ sim.pegs = pegs

\* C12, in the form a finite run refutes.  update_play makes the next balls and
\* pegs from the present ones and from nothing else, and the main loop calls
\* it once a frame while the state is PLAY.  If every ball in flight is
\* eventually finalized, then no simulation step leaves a playfield with a ball
\* in flight exactly as it was: from such a playfield every later step does
\* the same, the ball is never finalized and the game never reaches GAMEOVER.
NoBallAtRest == ~AtRest

\* What the claim asks of a state in GAMEOVER: the whole budget has been
\* dropped, every ball of it has been handed to handle_ball_box_score, once,
\* no ball is in flight, and best_score is at least the session's score.
GameOverAccount ==
    /\ balls_dropped = balls_allowed
    /\ ScoredIds = 1..balls_allowed
    /\ Len(scored) = balls_allowed
    /\ balls = <<>>
    /\ best_score >= score

\* C13: GAMEOVER is entered from PLAY only, and only by update_play; an
\* update_play ends in GAMEOVER exactly when, after it, balls_dropped equals
\* balls_allowed and the ball list is empty; every state in GAMEOVER has the
\* whole budget dropped and scored, no ball in flight and best_score >= score;
\* and no step of any session lowers best_score.
GameOverDetection ==
    /\ [](state = STATE_GAMEOVER => GameOverAccount)
    /\ [][ /\ (state # STATE_GAMEOVER /\ state' = STATE_GAMEOVER) =>
                  (state = STATE_PLAY /\ UpdatePlay)
           /\ UpdatePlay =>
                  ((state' = STATE_GAMEOVER)
                      = (balls_dropped' = balls_allowed' /\ Len(balls') = 0))
           /\ best_score' >= best_score
         ]_vars

\* A second session has ended with a lower score than the best one: GAMEOVER
\* with the balls scored, and best_score kept from the earlier session.
GameOverDetectionWitness ==
    /\ state = STATE_GAMEOVER
    /\ Len(scored) = balls_allowed
    /\ score > 0
    /\ best_score > score

=============================================================================
